---- MODULE Spec2Model ----
(***************************************************************************)
(* Fast-Copy line manager (src/JS/script.JS): the line cursor, the         *)
(* persistence adapter over localStorage and the clipboard adapter.        *)
(*                                                                         *)
(* A JavaScript string is a sequence of one-character strings, so that     *)
(* split, trim and parseInt are computed character by character.           *)
(***************************************************************************)
EXTENDS Integers, Sequences, FiniteSets, TLC

(* ---------------------------------------------------------------- bounds *)
\* longest raw text given to parseLines on its own
MaxTextLen == 5
\* most lines of a textarea content given to confirmInput
MaxLines == 3

(* ------------------------------------------------------------ characters *)
NL == "\n"
SP == " "
\* the characters String.prototype.trim removes (line terminators included)
WhiteSpace == {SP, NL}
Alphabet == {"a", "b", SP, NL}

SeqsUpTo(S, n) == UNION {[1..k -> S] : k \in 0..n}

(* --------------------------------------------------- JavaScript strings *)
RECURSIVE trimStart(_)
trimStart(s) ==
  IF s = <<>> THEN <<>>
  ELSE IF Head(s) \in WhiteSpace THEN trimStart(Tail(s)) ELSE s

RECURSIVE trimEnd(_)
trimEnd(s) ==
  IF s = <<>> THEN <<>>
  ELSE IF s[Len(s)] \in WhiteSpace THEN trimEnd(SubSeq(s, 1, Len(s) - 1)) ELSE s

\* String.prototype.trim
trim(s) == trimEnd(trimStart(s))

\* String.prototype.split('\n'): the segments between newlines; a text
\* without newline is one segment, the empty text is one empty segment
RECURSIVE splitFrom(_, _)
splitFrom(s, cur) ==
  IF s = <<>> THEN <<cur>>
  ELSE IF Head(s) = NL THEN <<cur>> \o splitFrom(Tail(s), <<>>)
  ELSE splitFrom(Tail(s), Append(cur, Head(s)))

split(s) == splitFrom(s, <<>>)

\* Array.prototype.map
RECURSIVE mapTrim(_)
mapTrim(segs) ==
  IF segs = <<>> THEN <<>> ELSE <<trim(Head(segs))>> \o mapTrim(Tail(segs))

\* Array.prototype.join('\n')
RECURSIVE join(_)
join(ls) ==
  IF ls = <<>> THEN <<>>
  ELSE IF Len(ls) = 1 THEN ls[1]
  ELSE ls[1] \o <<NL>> \o join(Tail(ls))

\* Utils.isEmpty: !text || !text.trim()
isEmpty(text) == text = <<>> \/ trim(text) = <<>>

NonEmptyLine(line) == Len(line) > 0

\* LineManager.parseLines with the filter left out
parseLinesNoFilter(text) ==
  IF isEmpty(text) THEN <<>> ELSE mapTrim(split(text))

\* LineManager.parseLines
parseLines(text) ==
  IF isEmpty(text) THEN <<>>
  ELSE SelectSeq(mapTrim(split(text)), NonEmptyLine)

(* ------------------------------------------------------ JavaScript values *)
\* A value is [t, v]: t its type, v its content (<<>> when it has none).
JNull == [t |-> "null", v |-> <<>>]
JUndefined == [t |-> "undefined", v |-> <<>>]
JNum(n) == [t |-> "num", v |-> n]
JStr(s) == [t |-> "str", v |-> s]
JArr(xs) == [t |-> "arr", v |-> xs]
\* an object: its members in order, each <<key, value>>
JObj(ms) == [t |-> "obj", v |-> ms]

\* ToBoolean, as used by !x, x && y and x || y
truthy(x) ==
  CASE x.t = "null" -> FALSE
    [] x.t = "undefined" -> FALSE
    [] x.t = "num" -> x.v # 0
    [] x.t = "str" -> x.v # <<>>
    [] OTHER -> TRUE

\* x || y
orElse(x, y) == IF truthy(x) THEN x ELSE y

\* x.key for a value that is neither null nor undefined: the last member of
\* that name in an object, undefined in anything else
RECURSIVE lookup(_, _)
lookup(ms, key) ==
  IF ms = <<>> THEN JUndefined
  ELSE IF ms[Len(ms)][1] = key THEN ms[Len(ms)][2]
  ELSE lookup(SubSeq(ms, 1, Len(ms) - 1), key)

getProp(x, key) == IF x.t = "obj" THEN lookup(x.v, key) ELSE JUndefined

Str(w) == CASE w = "lines" -> <<"l", "i", "n", "e", "s">>
            [] w = "index" -> <<"i", "n", "d", "e", "x">>
            [] w = "timestamp" -> <<"t", "i", "m", "e", "s", "t", "a", "m", "p">>

(* ------------------------------------------------------------------ JSON *)
\* A JSON text is its sequence of lexical tokens [k, v]: the punctuation
\* marks, null, numbers and strings (v the characters between the quotes).
Punct(c) == [k |-> c, v |-> <<>>]
TNull == [k |-> "null", v |-> <<>>]
TNum(n) == [k |-> "num", v |-> n]
TStr(s) == [k |-> "str", v |-> s]

QUOTE == "\""
BACKSLASH == "\\"

\* what JSON.stringify puts between the quotes of a string: quote,
\* backslash and newline are escaped
RECURSIVE escapeString(_)
escapeString(str) ==
  IF str = <<>> THEN <<>>
  ELSE LET c == Head(str) IN
       (IF c \in {QUOTE, BACKSLASH} THEN <<BACKSLASH, c>>
        ELSE IF c = NL THEN <<BACKSLASH, "n">>
        ELSE <<c>>) \o escapeString(Tail(str))

\* the string JSON.parse reads between two quotes: [ok, val]; a bare
\* quote, newline or backslash and an unknown escape are syntax errors
RECURSIVE unescapeString(_, _)
unescapeString(raw, acc) ==
  IF raw = <<>> THEN [ok |-> TRUE, val |-> acc]
  ELSE IF Head(raw) = BACKSLASH
  THEN IF Len(raw) < 2 THEN [ok |-> FALSE, val |-> <<>>]
       ELSE IF raw[2] \in {QUOTE, BACKSLASH}
       THEN unescapeString(Tail(Tail(raw)), Append(acc, raw[2]))
       ELSE IF raw[2] = "n" THEN unescapeString(Tail(Tail(raw)), Append(acc, NL))
       ELSE [ok |-> FALSE, val |-> <<>>]
  ELSE IF Head(raw) \in {QUOTE, NL} THEN [ok |-> FALSE, val |-> <<>>]
  ELSE unescapeString(Tail(raw), Append(acc, Head(raw)))

RECURSIVE stringifyStrings(_)
stringifyStrings(ls) ==
  IF ls = <<>> THEN <<>>
  ELSE IF Len(ls) = 1 THEN <<TStr(escapeString(ls[1]))>>
  ELSE <<TStr(escapeString(ls[1])), Punct(",")>> \o stringifyStrings(Tail(ls))

\* JSON.stringify({ lines, index, timestamp }) for an array of strings and
\* two finite numbers
stringify(ls, idx, ts) ==
  <<Punct("{"), TStr(Str("lines")), Punct(":"), Punct("[")>>
    \o stringifyStrings(ls)
    \o <<Punct("]"), Punct(","), TStr(Str("index")), Punct(":"), TNum(idx),
         Punct(","), TStr(Str("timestamp")), Punct(":"), TNum(ts), Punct("}")>>

ParseFail == [ok |-> FALSE, val |-> JNull, rest |-> <<>>]
ParseOk(x, r) == [ok |-> TRUE, val |-> x, rest |-> r]

RECURSIVE parseValue(_), parseElements(_, _), parseMembers(_, _)
parseValue(toks) ==
  IF toks = <<>> THEN ParseFail
  ELSE LET h == Head(toks)
           r == Tail(toks)
       IN CASE h.k = "null" -> ParseOk(JNull, r)
            [] h.k = "num" -> ParseOk(JNum(h.v), r)
            [] h.k = "str" ->
                 LET u == unescapeString(h.v, <<>>) IN
                 IF u.ok THEN ParseOk(JStr(u.val), r) ELSE ParseFail
            [] h.k = "[" ->
                 IF r # <<>> /\ Head(r).k = "]" THEN ParseOk(JArr(<<>>), Tail(r))
                 ELSE parseElements(r, <<>>)
            [] h.k = "{" ->
                 IF r # <<>> /\ Head(r).k = "}" THEN ParseOk(JObj(<<>>), Tail(r))
                 ELSE parseMembers(r, <<>>)
            [] OTHER -> ParseFail

parseElements(toks, acc) ==
  LET e == parseValue(toks) IN
  IF ~e.ok \/ e.rest = <<>> THEN ParseFail
  ELSE LET sep == Head(e.rest).k
           xs == Append(acc, e.val)
       IN CASE sep = "," -> parseElements(Tail(e.rest), xs)
            [] sep = "]" -> ParseOk(JArr(xs), Tail(e.rest))
            [] OTHER -> ParseFail

parseMembers(toks, acc) ==
  IF Len(toks) < 2 \/ toks[1].k # "str" \/ toks[2].k # ":" THEN ParseFail
  ELSE LET key == unescapeString(toks[1].v, <<>>)
           e == parseValue(SubSeq(toks, 3, Len(toks)))
       IN
       IF ~key.ok \/ ~e.ok \/ e.rest = <<>> THEN ParseFail
       ELSE LET sep == Head(e.rest).k
                ms == Append(acc, <<key.val, e.val>>)
            IN CASE sep = "," -> parseMembers(Tail(e.rest), ms)
                 [] sep = "}" -> ParseOk(JObj(ms), Tail(e.rest))
                 [] OTHER -> ParseFail

\* JSON.parse: [ok, val]; ok = FALSE is the SyntaxError it throws
JSONparse(toks) ==
  LET p == parseValue(toks) IN
  IF p.ok /\ p.rest = <<>> THEN [ok |-> TRUE, val |-> p.val]
  ELSE [ok |-> FALSE, val |-> JNull]

\* Utils.safeJSONParse(str) with the default fallback null
safeJSONParse(toks) ==
  LET p == JSONparse(toks) IN IF p.ok THEN p.val ELSE JNull


(* ----------------------------------------------------------------- state *)
VARIABLES
  lines,         \* LineManager.lines
  index,         \* LineManager.index
  localStorage,  \* the items under the three CONFIG.STORAGE_KEYS
  lightMode,     \* document.body has class light-mode
  pend,          \* the suspended async calls, oldest first
  hasNativeSupport, \* ClipboardManager.hasNativeSupport
  notice,        \* the dialog the latest step opened through UIManager
  last,          \* the latest step: its handler and its input
  copyLog,       \* the latest clipboard.copy call: text, attempts, result
  run,           \* copy-next calls completed in a row since confirm-input
  runLog,        \* the texts written to the clipboard during that row
  uncaught,      \* an exception has escaped a handler
  sfault,        \* a storage call of the latest step has failed
  copied,        \* the texts written since the session was created, when kept
  faults,        \* steps in which the storage may still fail
  arg,           \* input of the function under study (function specs)
  res            \* its result

progVars == <<lines, index, localStorage, lightMode, pend, hasNativeSupport>>
obsVars == <<notice, last, copyLog, run, runLog, uncaught, sfault, copied, faults>>
funVars == <<arg, res>>
vars == <<progVars, obsVars, funVars>>

(* -------------------------------------------------------------- storage *)
NoItem == [present |-> FALSE, text |-> <<>>]
Item(x) == [present |-> TRUE, text |-> x]
NoMode == [present |-> FALSE, text |-> ""]

EmptyStorage ==
  [savedLines |-> NoItem, mode |-> NoMode, clipboardPermission |-> NoMode]

\* how a localStorage call ends: setItem "ok", or throwing
\* QuotaExceededError ("quota") or another exception ("error"); getItem and
\* removeItem "ok" or throwing ("error")
CallOutcomes == {"ok", "error"}


\* What one step is given by its surroundings: how the setItem calls and
\* the removeItem calls made during it end (when setItem fails for another
\* reason than the quota, the storage is out of reach and removeItem fails
\* too), whether ClipboardJS is defined, whether the DOM copy fallback
\* works, and the clock.
StorageConditions ==
  {[set |-> "ok", rm |-> "ok"], [set |-> "quota", rm |-> "ok"],
   [set |-> "quota", rm |-> "error"], [set |-> "error", rm |-> "error"]}
Clock == {1}
StepInput(sc, cjs, fb, now) ==
  [set |-> sc.set, rm |-> sc.rm, cjs |-> cjs, fb |-> fb, now |-> now]
StepInputs ==
  {StepInput(sc, cjs, fb, now) :
     sc \in StorageConditions, cjs \in BOOLEAN, fb \in BOOLEAN, now \in Clock}
\* the inputs of a step that makes no copy, and of one that stores nothing
StorageInputs == {io \in StepInputs : ~io.cjs /\ io.fb}
CopyInputs == {io \in StepInputs : io.set = "ok" /\ io.rm = "ok"}
NoInputs == StorageInputs \cap CopyInputs

(* A handler is an operator on the record s of everything it reads and     *)
(* writes: the program's variables, what the step reports (notice,         *)
(* copyLog), threw (an exception is propagating), sf (a storage call of    *)
(* the step has failed), io (the step's inputs) and by (the user action    *)
(* the step belongs to).                                                   *)
NoCopy == [text |-> <<>>, tried |-> <<>>, result |-> "none"]

\* the writes are not kept; a session has been created and nothing written
NoTrack == [on |-> FALSE, texts |-> {}, jumped |-> FALSE]
NewTrack == [on |-> TRUE, texts |-> {}, jumped |-> FALSE]

Begin(io, by) ==
  [lines |-> lines, index |-> index, ls |-> localStorage, light |-> lightMode,
   pend |-> pend, notice |-> "none",
   copyLog |-> NoCopy, run |-> run, runLog |-> runLog, threw |-> FALSE,
   sf |-> FALSE, calls |-> <<>>, copied |-> copied, io |-> io, by |-> by]

\* a method of localStorage is called: calls is the list of the calls made
\* in the step
called(s, method) == [s EXCEPT !.calls = Append(@, method)]

(* ------------------------------------------------------- StorageManager *)
\* clearSession emptying the whole storage
clearSessionAll(s) ==
  LET c == called(s, "removeItem") IN
  IF c.io.rm = "ok" THEN [c EXCEPT !.ls = EmptyStorage]
  ELSE [c EXCEPT !.sf = TRUE]

\* StorageManager.clearSession
clearSession(s) ==
  LET c == called(s, "removeItem") IN
  IF c.io.rm = "ok" THEN [c EXCEPT !.ls.savedLines = NoItem]
  ELSE [c EXCEPT !.sf = TRUE]

\* StorageManager.handleStorageError(error), error.name being "quota" for
\* QuotaExceededError
handleStorageError(s, error) ==
  IF error = "quota" THEN clearSession(s) ELSE s

\* saveSession without its try/catch: the exception of setItem propagates
saveSessionNoCatch(s, ls, idx) ==
  LET c == called(s, "setItem") IN
  IF c.io.set = "ok"
  THEN [c EXCEPT !.ls.savedLines = Item(stringify(ls, idx, c.io.now))]
  ELSE [c EXCEPT !.sf = TRUE, !.threw = TRUE]

\* saveSession writing the index it was given plus one
saveSessionOffByOne(s, ls, idx) ==
  LET c == called(s, "setItem") IN
  IF c.io.set = "ok"
  THEN [c EXCEPT !.ls.savedLines = Item(stringify(ls, idx + 1, c.io.now))]
  ELSE handleStorageError([c EXCEPT !.sf = TRUE], c.io.set)

\* saveSession writing once more after the session key has been cleared
saveSessionRetrying(s, ls, idx) ==
  LET c == called(s, "setItem") IN
  IF c.io.set = "ok"
  THEN [c EXCEPT !.ls.savedLines = Item(stringify(ls, idx, c.io.now))]
  ELSE LET h == handleStorageError([c EXCEPT !.sf = TRUE], c.io.set)
       IN IF c.io.set = "quota" THEN called(h, "setItem") ELSE h

\* StorageManager.saveSession(lines, index)
saveSession(s, ls, idx) ==
  LET c == called(s, "setItem") IN
  IF c.io.set = "ok"
  THEN [c EXCEPT !.ls.savedLines = Item(stringify(ls, idx, c.io.now))]
  ELSE handleStorageError([c EXCEPT !.sf = TRUE], c.io.set)

\* StorageManager.saveMode(mode)
saveMode(s, mode) ==
  LET c == called(s, "setItem") IN
  IF c.io.set = "ok" THEN [c EXCEPT !.ls.mode = [present |-> TRUE, text |-> mode]]
  ELSE [c EXCEPT !.sf = TRUE]

EmptySession == [lines |-> JNull, index |-> JNum(0), threw |-> FALSE]

\* loadSession trusting whatever JSON.parse returns or throws
loadSessionNoGuard(item, rd) ==
  IF rd # "ok" THEN [lines |-> JNull, index |-> JNum(0), threw |-> TRUE]
  ELSE IF ~item.present \/ item.text = <<>> THEN EmptySession
  ELSE LET p == JSONparse(item.text) IN
       IF ~p.ok THEN [lines |-> JNull, index |-> JNum(0), threw |-> TRUE]
       ELSE [lines |-> getProp(p.val, Str("lines")),
             index |-> getProp(p.val, Str("index")), threw |-> FALSE]

\* StorageManager.loadSession: item is what is stored under savedLines, rd
\* how getItem ends
loadSession(item, rd) ==
  IF rd # "ok" THEN EmptySession
  ELSE IF ~item.present \/ item.text = <<>> THEN EmptySession
  ELSE LET sessionData == safeJSONParse(item.text) IN
       IF truthy(sessionData) /\ truthy(getProp(sessionData, Str("lines")))
       THEN [lines |-> getProp(sessionData, Str("lines")),
             index |-> orElse(getProp(sessionData, Str("index")), JNum(0)),
             threw |-> FALSE]
       ELSE EmptySession


(* ------------------------------------------------------ ClipboardManager *)
\* a mechanism has put the text on the system clipboard; the clipboard
\* itself is not kept, the writes are: in copyLog, in the state of the
\* suspended call, during a row of copy-next calls in runLog and, when
\* they are kept, in copied
writeClipboard(s, text) ==
  [s EXCEPT !.runLog = IF s.run >= 0 THEN Append(@, text) ELSE @,
            !.copied.texts = IF s.copied.on THEN @ \cup {text} ELSE @]

\* one mechanism has been tried; lib says whether ClipboardJS was defined
attempt(s, mechanism, ok) ==
  [s EXCEPT !.copyLog.tried = Append(@, [m |-> mechanism, ok |-> ok, lib |-> s.io.cjs]),
            !.copyLog.result = IF ok THEN "resolved" ELSE "rejected"]

\* ClipboardManager.copyWithClipboardJS
copyWithClipboardJS(s, text) ==
  attempt(IF s.io.fb THEN writeClipboard(s, text) ELSE s, "ClipboardJS", s.io.fb)

\* ClipboardManager.copyWithExecCommand
copyWithExecCommand(s, text) ==
  attempt(IF s.io.fb THEN writeClipboard(s, text) ELSE s, "execCommand", s.io.fb)

\* ClipboardManager.copy from its second statement on: after the native
\* write was skipped or has failed
copyFallback(s, text) ==
  IF s.io.cjs THEN copyWithClipboardJS(s, text)
  ELSE copyWithExecCommand(s, text)

\* copy letting the failure of the native write reach its caller
copyAfterNativeNoFallback(s, text, ok) == attempt(s, "native", ok)

\* ClipboardManager.copy from the end of the native write on: it returns
\* when the write has succeeded and falls back when it has failed
copyAfterNative(s, text, ok) ==
  IF ok THEN attempt(s, "native", TRUE)
  ELSE copyFallback(attempt(s, "native", FALSE), text)

\* ClipboardManager.copy up to the point where it returns or suspends:
\* copyLog.result = "pending" says it awaits navigator.clipboard.writeText
copy(s, text) ==
  LET s1 == [s EXCEPT !.copyLog = [text |-> text, tried |-> <<>>, result |-> "pending"]]
  IN IF text = <<>> THEN [s1 EXCEPT !.copyLog.result = "rejected"]
     ELSE IF hasNativeSupport THEN s1
     ELSE copyFallback(s1, text)

\* the call op is suspended on the native write of text
suspend(s, op, text) ==
  [s EXCEPT !.pend = Append(@, [op |-> op, text |-> text, st |-> "writing",
                                 max |-> 0, by |-> s.by])]

(* ----------------------------------------------------------- LineManager *)
\* ls[i] of JavaScript, 0-based; outside the array it is undefined, which
\* Utils.isEmpty and the !text of ClipboardManager.copy treat as they treat
\* the empty string
at(ls, i) == IF i >= 0 /\ i < Len(ls) THEN ls[i + 1] ELSE <<>>

\* skipEmptyLines skipping nothing
skipEmptyLinesNone(s) == s

\* LineManager.skipEmptyLines
RECURSIVE skipEmptyLines(_)
skipEmptyLines(s) ==
  IF s.index < Len(s.lines) /\ isEmpty(at(s.lines, s.index))
  THEN skipEmptyLines([s EXCEPT !.index = @ + 1])
  ELSE s

\* LineManager.handleCopyError: the messages the copy mechanisms reject
\* with ('No text to copy', 'ClipboardJS failed: ...', 'execCommand copy
\* failed') contain neither 'clipboard' nor 'permission', so the notice is
\* the general one
handleCopyError(s) == [s EXCEPT !.notice = "COPY_ALL_ERROR", !.threw = FALSE]

\* copyNext after its await without the index++
copyNextAfterNoAdvance(s) ==
  IF s.copyLog.result = "resolved"
  THEN LET s2 == saveSession(s, s.lines, s.index)
       IN IF s2.threw THEN handleCopyError(s2) ELSE s2
  ELSE handleCopyError(s)

\* copyNext after its await incrementing and saving whether or not the copy
\* has succeeded
copyNextAfterAdvanceAlways(s) ==
  LET s1 == [s EXCEPT !.index = @ + 1]
      s2 == saveSession(s1, s1.lines, s1.index)
  IN IF s.copyLog.result = "resolved" /\ ~s2.threw THEN s2 ELSE handleCopyError(s2)

\* LineManager.copyNext after its await, the copy having been settled
copyNextAfter(s) ==
  IF s.copyLog.result = "resolved"
  THEN LET s1 == [s EXCEPT !.index = @ + 1]
           s2 == saveSession(s1, s1.lines, s1.index)
       IN IF s2.threw THEN handleCopyError(s2) ELSE s2
  ELSE handleCopyError(s)

\* LineManager.copyNext up to its await
copyNext(s) ==
  LET s1 == skipEmptyLines(s) IN
  IF s1.index >= Len(s1.lines) THEN [s1 EXCEPT !.notice = "LIST_ENDED"]
  ELSE LET currentLine == at(s1.lines, s1.index)
           s2 == copy(s1, currentLine)
       IN IF s2.copyLog.result = "pending" THEN suspend(s2, "copyNext", currentLine)
          ELSE copyNextAfter(s2)

\* confirmInput without its saveSession
confirmInputNoSave(s, value) ==
  LET text == trim(value) IN
  IF isEmpty(text) THEN [s EXCEPT !.notice = "ENTER_TEXT"]
  ELSE LET s1 == [s EXCEPT !.lines = parseLines(text)] IN
       IF Len(s1.lines) = 0 THEN [s1 EXCEPT !.notice = "ENTER_TEXT"]
       ELSE [s1 EXCEPT !.index = 0]

\* confirmInput parsing the text into this.lines before it looks at it
confirmInputParsingFirst(s, value) ==
  LET s1 == [s EXCEPT !.lines = parseLines(trim(value))] IN
  IF Len(s1.lines) = 0 THEN [s1 EXCEPT !.notice = "ENTER_TEXT"]
  ELSE saveSession([s1 EXCEPT !.index = 0], s1.lines, 0)

\* LineManager.confirmInput, value being the content of the textarea
confirmInput(s, value) ==
  LET text == trim(value) IN
  IF isEmpty(text) THEN [s EXCEPT !.notice = "ENTER_TEXT"]
  ELSE LET s1 == [s EXCEPT !.lines = parseLines(text)] IN
       IF Len(s1.lines) = 0 THEN [s1 EXCEPT !.notice = "ENTER_TEXT"]
       ELSE saveSession([s1 EXCEPT !.index = 0], s1.lines, 0)

Max(a, b) == IF a >= b THEN a ELSE b

\* copyPrev stepping back by one
copyPrevByOne(s) ==
  IF s.index <= 0 THEN [s EXCEPT !.notice = "NO_PREVIOUS"]
  ELSE LET s1 == [s EXCEPT !.index = Max(0, @ - 1)]
           s2 == saveSession(s1, s1.lines, s1.index)
       IN IF s2.threw THEN s2 ELSE copyNext(s2)

\* copyPrev returning early only below index 0
copyPrevBelowZero(s) ==
  IF s.index < 0 THEN [s EXCEPT !.notice = "NO_PREVIOUS"]
  ELSE LET s1 == [s EXCEPT !.index = Max(0, @ - 2)]
           s2 == saveSession(s1, s1.lines, s1.index)
       IN IF s2.threw THEN s2 ELSE copyNext(s2)

\* LineManager.copyPrev
copyPrev(s) ==
  IF s.index <= 0 THEN [s EXCEPT !.notice = "NO_PREVIOUS"]
  ELSE LET s1 == [s EXCEPT !.index = Max(0, @ - 2)]
           s2 == saveSession(s1, s1.lines, s1.index)
       IN IF s2.threw THEN s2 ELSE copyNext(s2)

\* LineManager.copyAll up to its await and, when the copy is settled at
\* once, beyond
copyAllAfter(s) ==
  IF s.copyLog.result = "resolved" THEN [s EXCEPT !.notice = "COPY_ALL_SUCCESS"]
  ELSE handleCopyError(s)

copyAll(s) ==
  IF Len(s.lines) = 0 THEN s
  ELSE LET allText == join(s.lines)
           s1 == copy(s, allText)
       IN IF s1.copyLog.result = "pending" THEN suspend(s1, "copyAll", allText)
          ELSE copyAllAfter(s1)

\* resetAll leaving the index where it is
resetAllKeepsIndex(s) == clearSession([s EXCEPT !.lines = <<>>])

\* LineManager.resetAll
resetAll(s) == clearSession([s EXCEPT !.lines = <<>>, !.index = 0])

\* LineManager.toggleMode
toggleMode(s) ==
  LET s1 == [s EXCEPT !.light = ~@] IN
  saveMode(s1, IF s1.light THEN "light" ELSE "dark")


(* ------------------------------------------------------- copy by number *)
Digits == <<"0", "1", "2", "3", "4", "5", "6", "7", "8", "9">>
IsDigit(c) == \E d \in 1..10 : Digits[d] = c
DigitValue(c) == (CHOOSE d \in 1..10 : Digits[d] = c) - 1

\* the decimal numeral of a natural number
RECURSIVE decimal(_)
decimal(n) ==
  IF n < 10 THEN <<Digits[n + 1]>> ELSE Append(decimal(n \div 10), Digits[(n % 10) + 1])

RECURSIVE digitsValue(_, _)
digitsValue(str, acc) ==
  IF str = <<>> \/ ~IsDigit(Head(str)) THEN acc
  ELSE digitsValue(Tail(str), 10 * acc + DigitValue(Head(str)))

\* parseInt(string): leading white space and one sign are skipped, the
\* digits that follow are read up to the first other character; NaN when
\* there is no digit
NaN == [nan |-> TRUE, n |-> 0]
parseInt(str) ==
  LET t == trimStart(str)
      neg == t # <<>> /\ Head(t) = "-"
      u == IF t # <<>> /\ Head(t) \in {"-", "+"} THEN Tail(t) ELSE t
  IN IF u = <<>> \/ ~IsDigit(Head(u)) THEN NaN
     ELSE [nan |-> FALSE, n |-> IF neg THEN 0 - digitsValue(u, 0) ELSE digitsValue(u, 0)]

\* LineManager.isValidLineNumber
isValidLineNumber(s, lineNum) ==
  ~lineNum.nan /\ lineNum.n >= 1 /\ lineNum.n <= Len(s.lines)

\* the inputValidator of UIManager.promptForLineNumber: TRUE when it lets
\* the value be confirmed
inputValidator(value, maxLines) ==
  LET num == parseInt(value) IN
  ~(value = <<>> \/ num.nan \/ num.n < 1 \/ num.n > maxLines)

\* LineManager.copyByNumber up to its first await: the prompt is open
copyByNumber(s) ==
  IF Len(s.lines) = 0 THEN s
  ELSE [s EXCEPT !.pend = Append(@, [op |-> "copyByNumber", text |-> <<>>,
                                      st |-> "prompt", max |-> Len(s.lines),
                                      by |-> s.by])]

\* copyByNumber taking the line number for the index
copyByNumberAfterNoOffset(s, result) ==
  IF ~result.isConfirmed \/ result.value = <<>> THEN s
  ELSE LET lineNum == parseInt(result.value) IN
       IF ~isValidLineNumber(s, lineNum) THEN [s EXCEPT !.notice = "INVALID_NUMBER"]
       ELSE LET s1 == [s EXCEPT !.index = lineNum.n]
                s2 == saveSession(s1, s1.lines, s1.index)
            IN IF s2.threw
               THEN [s2 EXCEPT !.notice = "COPY_LINE_ERROR", !.threw = FALSE]
               ELSE copyNext(s2)

\* LineManager.copyByNumber from the prompt's result on; an exception of
\* its try block ends in its catch
copyByNumberAfter(s, result) ==
  IF ~result.isConfirmed \/ result.value = <<>> THEN s
  ELSE LET lineNum == parseInt(result.value) IN
       IF ~isValidLineNumber(s, lineNum) THEN [s EXCEPT !.notice = "INVALID_NUMBER"]
       ELSE LET s1 == [s EXCEPT !.index = lineNum.n - 1]
                s2 == saveSession(s1, s1.lines, s1.index)
            IN IF s2.threw
               THEN [s2 EXCEPT !.notice = "COPY_LINE_ERROR", !.threw = FALSE]
               ELSE copyNext(s2)


(* --------------------------------------------------------------- actions *)
MaxPromptNumber == 4

\* what the user may have put into the textarea: nothing, one blank, n
\* lines "a", "b", ... one per row, or the most lines, each padded with
\* blanks and set between rows of blanks only
Letters == <<"a", "b", "c", "d", "e", "f", "g", "h">>
PlainText(n) == join([k \in 1..n |-> <<Letters[k]>>])
PaddedText(n) ==
  join([k \in 1..(2 * n + 1) |->
          IF k % 2 = 1 THEN <<SP>> ELSE <<SP, Letters[k \div 2], SP>>])
InputTexts ==
  {PlainText(n) : n \in 0..MaxLines}
    \cup {PaddedText(0), PaddedText(MaxLines), <<SP, NL, SP>>}

\* what the user may type into the number prompt
PromptValues ==
  {decimal(n) : n \in 0..MaxPromptNumber}
    \cup {<<>>, <<"1", ".", "5">>, <<"2", ".", "9">>, <<"-", "1">>, <<"1", "e", "1">>}
PromptResults ==
  [isConfirmed : {TRUE}, value : PromptValues]
    \cup {[isConfirmed |-> FALSE, value |-> <<>>]}

\* The label of a step: the user action it belongs to, the value given to
\* the number prompt (once it is), and how far the action has come: "done",
\* "cancelled" (the prompt was dismissed), or suspended: "prompt" (the
\* prompt is open), "writing" (a native write is under way), "written" or
\* "failed" (the write has ended, the handler has not resumed).
Step(op, value, phase) == [op |-> op, value |-> value, phase |-> phase]
By(op, value) == [op |-> op, value |-> value]

\* no handler is suspended: the previous action has run to completion
Idle == pend = <<>>

\* the step ends: the record becomes the state
Commit(s, phase) ==
  /\ s.sf => faults > 0
  /\ faults' = IF s.sf THEN faults - 1 ELSE faults
  /\ lines' = s.lines
  /\ index' = s.index
  /\ localStorage' = s.ls
  /\ lightMode' = s.light
  /\ pend' = s.pend
  /\ notice' = s.notice
  /\ last' = Step(s.by.op, s.by.value, phase)
  /\ copyLog' = s.copyLog
  /\ run' = s.run
  /\ runLog' = s.runLog
  /\ uncaught' = (uncaught \/ s.threw)
  /\ sfault' = s.sf
  /\ copied' = s.copied
  /\ UNCHANGED <<hasNativeSupport, funVars>>

\* the phase a handler leaves its action in when it returns
PhaseOf(s) ==
  IF Len(s.pend) <= Len(pend) THEN "done" ELSE s.pend[Len(s.pend)].st

\* bookkeeping of the row of copy-next calls since confirm-input
breakRun(s) == [s EXCEPT !.run = -1, !.runLog = <<>>]
countRun(s) ==
  IF s.run < 0 THEN s
  ELSE IF s.copyLog.result = "rejected" \/ s.run > Len(s.lines) THEN breakRun(s)
  ELSE [s EXCEPT !.run = @ + 1]

\* a session has been created: nothing of it has been written yet
newSession(s) == [s EXCEPT !.copied = IF @.on THEN NewTrack ELSE @]
\* copyByNumber has set the index
jump(s) == [s EXCEPT !.copied.jumped = @ \/ s.copied.on]

\* What each step makes of the state, as the record it commits.
DoConfirmInput(value, io) ==
  LET s0 == confirmInput(breakRun(Begin(io, By("confirmInput", <<>>))), value)
      s == IF isEmpty(trim(value)) THEN s0 ELSE newSession(s0)
  IN IF s.notice = "none" /\ ~s.threw THEN [s EXCEPT !.run = 0] ELSE s

DoCopyNext(io) ==
  LET s == copyNext(Begin(io, By("copyNext", <<>>))) IN
  IF PhaseOf(s) = "done" THEN countRun(s) ELSE s

DoCopyPrev(io) == copyPrev(breakRun(Begin(io, By("copyPrev", <<>>))))

DoCopyByNumber(io) == copyByNumber(breakRun(Begin(io, By("copyByNumber", <<>>))))

DoCopyAll(io) == copyAll(breakRun(Begin(io, By("copyAll", <<>>))))

DoResetAll(io) == newSession(resetAll(breakRun(Begin(io, By("resetAll", <<>>)))))

DoToggleMode(io) == toggleMode(breakRun(Begin(io, By("toggleMode", <<>>))))

RemoveAt(q, k) == SubSeq(q, 1, k - 1) \o SubSeq(q, k + 1, Len(q))

DoPromptResult(k, result, io) ==
  LET s == copyByNumberAfter([Begin(io, By("copyByNumber", result.value)) EXCEPT
                                !.pend = RemoveAt(pend, k)], result)
  IN IF result.isConfirmed /\ result.value # <<>> /\ s.notice # "INVALID_NUMBER"
     THEN jump(s) ELSE s

DoWriteText(k, ok, io) ==
  LET s == [Begin(io, pend[k].by) EXCEPT !.pend[k].st = IF ok THEN "written" ELSE "failed"]
  IN IF ok THEN writeClipboard(s, pend[k].text) ELSE s

DoResume(k, io) ==
  LET s0 == [Begin(io, pend[k].by) EXCEPT
               !.pend = RemoveAt(pend, k),
               !.copyLog = [text |-> pend[k].text, tried |-> <<>>, result |-> "pending"]]
      s1 == copyAfterNative(s0, pend[k].text, pend[k].st = "written")
  IN IF pend[k].op = "copyNext" THEN countRun(copyNextAfter(s1)) ELSE copyAllAfter(s1)

\* the inputs a step may be given: the storage fails only while faults
\* are left
Given(inputs) ==
  IF faults > 0 THEN inputs ELSE {io \in inputs : io.set = "ok" /\ io.rm = "ok"}

ConfirmInput ==
  \E value \in InputTexts, io \in Given(StorageInputs) :
    Commit(DoConfirmInput(value, io), "done")

CopyNext ==
  \E io \in Given(IF hasNativeSupport THEN NoInputs ELSE StepInputs) :
    Commit(DoCopyNext(io), PhaseOf(DoCopyNext(io)))

CopyPrev ==
  \E io \in Given(IF hasNativeSupport THEN StorageInputs ELSE StepInputs) :
    Commit(DoCopyPrev(io), PhaseOf(DoCopyPrev(io)))

CopyByNumber ==
  \E io \in NoInputs :
    Commit(DoCopyByNumber(io), PhaseOf(DoCopyByNumber(io)))

CopyAll ==
  \E io \in Given(IF hasNativeSupport THEN NoInputs ELSE CopyInputs) :
    Commit(DoCopyAll(io), PhaseOf(DoCopyAll(io)))

ResetAll ==
  \E io \in Given(StorageInputs) : Commit(DoResetAll(io), "done")

ToggleMode ==
  \E io \in Given(StorageInputs) : Commit(DoToggleMode(io), "done")

\* the prompt of a suspended copyByNumber is closed; it can be confirmed
\* only with a value its inputValidator lets through
PromptResult ==
  \E k \in 1..Len(pend), result \in PromptResults,
     io \in Given(IF hasNativeSupport THEN StorageInputs ELSE StepInputs) :
    /\ pend[k].st = "prompt"
    /\ result.isConfirmed => inputValidator(result.value, pend[k].max)
    /\ LET s == DoPromptResult(k, result, io) IN
       Commit(s, IF ~result.isConfirmed THEN "cancelled"
                 ELSE IF Len(s.pend) >= Len(pend) THEN "writing" ELSE "done")

\* the browser ends a native navigator.clipboard.writeText
WriteText ==
  \E k \in 1..Len(pend), ok \in BOOLEAN, io \in NoInputs :
    /\ pend[k].st = "writing"
    /\ Commit(DoWriteText(k, ok, io), IF ok THEN "written" ELSE "failed")

\* a handler suspended on clipboard.copy goes on: copy returns after the
\* native write or falls back, then the handler runs to its end
Resume ==
  \E k \in 1..Len(pend), io \in Given(StepInputs) :
    /\ pend[k].op \in {"copyNext", "copyAll"}
    /\ pend[k].st \in {"written", "failed"}
    /\ pend[k].st = "written" => io \in Given(StorageInputs)
    /\ Commit(DoResume(k, io), "done")

\* the state after construction over an empty localStorage
Constructed ==
  /\ lines = <<>>
  /\ index = 0
  /\ localStorage = EmptyStorage
  /\ lightMode = FALSE
  /\ pend = <<>>
  /\ notice = "none"
  /\ last = Step("init", <<>>, "done")
  /\ copyLog = NoCopy
  /\ run = -1
  /\ runLog = <<>>
  /\ uncaught = FALSE
  /\ sfault = FALSE

Init ==
  /\ Constructed
  /\ copied = NoTrack
  /\ hasNativeSupport \in BOOLEAN
  /\ faults = 0
  /\ arg = <<>>
  /\ res = <<>>

\* every action runs to completion before the next begins
Next ==
  \/ Idle /\ ConfirmInput
  \/ Idle /\ CopyNext
  \/ Idle /\ CopyPrev
  \/ Idle /\ CopyByNumber
  \/ Idle /\ CopyAll
  \/ Idle /\ ResetAll
  \/ Idle /\ ToggleMode
  \/ PromptResult
  \/ WriteText
  \/ Resume

\* the storage works
Spec == Init /\ [][Next]_vars

\* most steps of a behaviour in which the storage fails
MaxStorageFaults == 1

\* the storage fails in up to MaxStorageFaults steps
InitFaults ==
  /\ Constructed
  /\ copied = NoTrack
  /\ hasNativeSupport \in BOOLEAN
  /\ faults = MaxStorageFaults
  /\ arg = <<>>
  /\ res = <<>>

SpecFaults == InitFaults /\ [][Next]_vars


(* ------------------------------------------------- the permission flow *)
Granted == [present |-> TRUE, text |-> "granted"]
Denied == [present |-> TRUE, text |-> "denied"]

\* localStorage.setItem(CLIPBOARD_PERMISSION, value), which nothing guards
setPermission(s, value) ==
  LET c == called(s, "setItem") IN
  IF c.io.set = "ok"
  THEN [c EXCEPT !.ls.clipboardPermission = [present |-> TRUE, text |-> value]]
  ELSE [c EXCEPT !.sf = TRUE, !.threw = TRUE]

\* a call of requestPermission, suspended: st says on what, "question"
\* (the first dialog), "writing", "written", "failed" (the native write of
\* the test copy), "success" (the dialog that reports it), "error" (the
\* dialog of handlePermissionError) or "note" (its last dialog)
awaiting(s, k, st) == [s EXCEPT !.pend[k].st = st]
return(s, k) == [s EXCEPT !.pend = RemoveAt(@, k)]

\* ClipboardManager.requestPermission up to its first await
requestPermission(s) ==
  [s EXCEPT !.pend = Append(@, [op |-> "requestPermission", text |-> <<SP>>,
                                 st |-> "question", max |-> 0, by |-> s.by])]

\* ClipboardManager.handlePermissionError up to its first await
handlePermissionError(s, k) == awaiting([s EXCEPT !.threw = FALSE], k, "error")

\* requestPermission opening the dialog of success whatever the test copy
\* has come to
requestPermissionAfterCopyUnchecked(s, k) == awaiting(s, k, "success")

\* requestPermission from the end of the test copy to its next await
requestPermissionAfterCopy(s, k) ==
  IF s.copyLog.result = "resolved" THEN awaiting(s, k, "success")
  ELSE handlePermissionError(s, k)

\* requestPermission from the result of its first dialog to its next await
requestPermissionAfterQuestion(s, k, result) ==
  IF ~result.isConfirmed THEN return(setPermission(s, "denied"), k)
  ELSE LET s1 == copy(s, <<SP>>) IN
       IF s1.copyLog.result = "pending" THEN awaiting(s1, k, "writing")
       ELSE requestPermissionAfterCopy(s1, k)

\* requestPermission from the end of the dialog of success on
requestPermissionAfterDone(s, k) ==
  LET s1 == setPermission(s, "granted") IN
  IF s1.threw THEN handlePermissionError(s1, k) ELSE return(s1, k)

\* handlePermissionError from the result of its dialog on: the retry is a
\* call of requestPermission, whose end is the end of this call too
handlePermissionErrorAfter(s, k, result) ==
  IF result.isConfirmed THEN awaiting(s, k, "question")
  ELSE LET s1 == setPermission(s, "denied") IN
       IF s1.threw THEN return(s1, k) ELSE awaiting(s1, k, "note")

DialogResults == [isConfirmed : BOOLEAN, value : {<<>>}]

ByPermission == By("requestPermission", <<>>)

\* the button requestPermissionIfNeeded has shown, and requestPermission
\* hides once the permission is granted, is clicked
RequestPermission ==
  \E io \in NoInputs :
    /\ localStorage.clipboardPermission # Granted
    /\ Commit(requestPermission(breakRun(Begin(io, ByPermission))), "question")

\* the first dialog is closed
QuestionResult ==
  \E k \in 1..Len(pend), result \in DialogResults,
     io \in Given(IF hasNativeSupport THEN StorageInputs ELSE StepInputs) :
    /\ pend[k].op = "requestPermission"
    /\ pend[k].st = "question"
    /\ result.isConfirmed => io \in CopyInputs
    /\ ~result.isConfirmed => io \in StorageInputs
    /\ LET s == requestPermissionAfterQuestion(Begin(io, ByPermission), k, result) IN
       Commit(s, IF Len(s.pend) < Len(pend) THEN "denied" ELSE s.pend[k].st)

\* the call suspended on the test copy goes on
PermissionCopied ==
  \E k \in 1..Len(pend), io \in CopyInputs :
    /\ pend[k].op = "requestPermission"
    /\ pend[k].st \in {"written", "failed"}
    /\ pend[k].st = "written" => io \in NoInputs
    /\ LET s0 == [Begin(io, ByPermission) EXCEPT
                    !.copyLog = [text |-> pend[k].text, tried |-> <<>>,
                                 result |-> "pending"]]
           s1 == copyAfterNative(s0, pend[k].text, pend[k].st = "written")
           s == requestPermissionAfterCopy(s1, k)
       IN Commit(s, s.pend[k].st)

\* the dialog of success is closed
DoneResult ==
  \E k \in 1..Len(pend), io \in Given(StorageInputs) :
    /\ pend[k].op = "requestPermission"
    /\ pend[k].st = "success"
    /\ LET s == requestPermissionAfterDone(Begin(io, ByPermission), k) IN
       Commit(s, IF Len(s.pend) < Len(pend) THEN "done" ELSE "error")

\* the dialog of handlePermissionError is closed
RetryResult ==
  \E k \in 1..Len(pend), result \in DialogResults, io \in Given(StorageInputs) :
    /\ pend[k].op = "requestPermission"
    /\ pend[k].st = "error"
    /\ result.isConfirmed => io \in NoInputs
    /\ LET s == handlePermissionErrorAfter(Begin(io, ByPermission), k, result) IN
       Commit(s, IF Len(s.pend) < Len(pend) THEN "done" ELSE s.pend[k].st)

\* the last dialog of handlePermissionError is closed
NoteResult ==
  \E k \in 1..Len(pend), io \in NoInputs :
    /\ pend[k].op = "requestPermission"
    /\ pend[k].st = "note"
    /\ Commit(return(Begin(io, ByPermission), k), "done")

NextPriming ==
  \/ Next
  \/ Idle /\ RequestPermission
  \/ QuestionResult
  \/ PermissionCopied
  \/ DoneResult
  \/ RetryResult
  \/ NoteResult

\* the storage works; the session and the permission flow, one action at
\* a time
SpecPriming == Init /\ [][NextPriming]_vars


(* ------------------------------------------------- properties of Spec *)
\* the session record in item reads back as the lines ls at index idx
SavedIs(item, ls, idx) ==
  LET r == loadSession(item, "ok") IN
  /\ r.lines = JArr([k \in 1..Len(ls) |-> JStr(ls[k])])
  /\ r.index = JNum(idx)

\* C1: after confirm-input on a text that parses to the list L, k
\* copy-next calls in a row, each completed and its write succeeding, have
\* written L[0..k-1] in that order, each once, and left the index at k; the
\* call after the last line writes nothing, reports the list as ended and
\* leaves the index at len(L).
C1_CopyNextRow ==
  (run >= 0 /\ Idle) =>
    /\ Len(lines) >= 1
    /\ run <= Len(lines) + 1
    /\ run <= Len(lines) => index = run /\ runLog = SubSeq(lines, 1, run)
    /\ run = Len(lines) + 1 =>
         /\ index = Len(lines)
         /\ runLog = lines
         /\ last.op = "copyNext"
         /\ notice = "LIST_ENDED"
         /\ copyLog = NoCopy

\* a list of three lines has been copied through and one more copy-next
\* has been made
C1_Witness ==
  /\ Idle
  /\ Len(lines) = 3
  /\ run = 4
  /\ runLog = lines
  /\ notice = "LIST_ENDED"

\* C2: from the empty session, whatever actions have run to completion and
\* however their clipboard writes ended, 0 <= index <= lines.length.
C2_IndexInRange == index >= 0 /\ index <= Len(lines)

\* copy-previous from index 1 has gone back to 0 and its clipboard write
\* has failed
C2_Witness ==
  /\ Idle
  /\ last.op = "copyPrev"
  /\ copyLog.result = "rejected"
  /\ index = 0
  /\ Len(lines) >= 2

\* the prompt of copy-by-number is being confirmed with the numeral of n
ConfirmedWith(n) ==
  /\ pend # <<>>
  /\ pend[1].st = "prompt"
  /\ last'.op = "copyByNumber"
  /\ last'.value = decimal(n)
  /\ last'.phase \in {"writing", "done"}

\* the text of the one suspended copy-next
WritingLine(q, text) ==
  /\ Len(q) = 1
  /\ q[1].op = "copyNext"
  /\ q[1].st = "writing"
  /\ q[1].text = text

\* the step made on the confirmation of copy-by-number with n, or on the
\* end of the write it has started, does what copy-by-number is to do
CopiesLine(n) ==
  /\ ConfirmedWith(n) =>
       /\ lines' = lines
       /\ IF last'.phase = "writing"
          THEN /\ index' = n - 1
               /\ SavedIs(localStorage'.savedLines, lines, n - 1)
               /\ WritingLine(pend', lines[n])
          ELSE /\ copyLog'.text = lines[n]
               /\ IF copyLog'.result = "resolved"
                  THEN /\ index' = n
                       /\ SavedIs(localStorage'.savedLines, lines, n)
                  ELSE /\ index' = n - 1
                       /\ SavedIs(localStorage'.savedLines, lines, n - 1)
  /\ (last.op = "copyByNumber" /\ last.value = decimal(n) /\ last.phase = "writing") =>
       /\ index' = n - 1
       /\ lines' = lines
       /\ last'.phase = "written" => pend'[1].text = lines[n]
  /\ (last.op = "copyByNumber" /\ last.value = decimal(n)
        /\ last.phase \in {"written", "failed"}) =>
       /\ index = n - 1
       /\ copyLog'.text = lines[n]
       /\ last.phase = "written" => copyLog'.result = "resolved"
       /\ index' = IF copyLog'.result = "resolved" THEN n ELSE n - 1

\* C4: for every n in 1..len a confirmed copy-by-number with value n sets
\* the index to n-1 and saves it in the session record, the copy that
\* follows writes lines[n-1], and the index is n once that write has
\* succeeded.
C4_CopyByNumber == [][\A n \in 1..Len(lines) : CopiesLine(n)]_vars

\* the third of three lines has been copied by its number through the
\* native write, which leaves the index at 3
C4_Witness ==
  /\ Idle
  /\ hasNativeSupport
  /\ last = Step("copyByNumber", decimal(3), "done")
  /\ copyLog.result = "resolved"
  /\ copyLog.text = lines[3]
  /\ index = 3
  /\ SavedIs(localStorage.savedLines, lines, 3)

\* the numerals of the integers
IntegerNumeral(value) ==
  LET u == IF value # <<>> /\ Head(value) \in {"-", "+"} THEN Tail(value) ELSE value
  IN u # <<>> /\ \A k \in 1..Len(u) : IsDigit(u[k])

IntegerIn(value, lo, hi) ==
  IntegerNumeral(value) /\ parseInt(value).n >= lo /\ parseInt(value).n <= hi

\* C5: a confirmed copy-by-number whose value is not an integer in
\* 1..lines.length is rejected as an invalid line number: index, lines and
\* the session record stay as they are and nothing is written to the
\* clipboard.
C5_InvalidRejected ==
  [][(/\ pend # <<>>
      /\ pend[1].st = "prompt"
      /\ last'.op = "copyByNumber"
      /\ last'.phase \in {"writing", "done"}
      /\ ~IntegerIn(last'.value, 1, Len(lines)))
     => /\ notice' = "INVALID_NUMBER"
        /\ index' = index
        /\ lines' = lines
        /\ localStorage' = localStorage
        /\ pend' = <<>>
        /\ copyLog' = NoCopy]_vars

\* the step made by copy-previous from an index i >= 1, or on the end of
\* the write it has started
CopiesPrevious ==
  LET j == Max(0, index - 2) IN
  /\ (Idle /\ index >= 1 /\ last'.op = "copyPrev") =>
       /\ lines' = lines
       /\ IF last'.phase = "writing"
          THEN /\ index' = j
               /\ SavedIs(localStorage'.savedLines, lines, j)
               /\ WritingLine(pend', lines[j + 1])
          ELSE /\ last'.phase = "done"
               /\ copyLog'.text = lines[j + 1]
               /\ IF copyLog'.result = "resolved"
                  THEN /\ index' = j + 1
                       /\ SavedIs(localStorage'.savedLines, lines, j + 1)
                  ELSE /\ index' = j
                       /\ SavedIs(localStorage'.savedLines, lines, j)
  /\ (last.op = "copyPrev" /\ last.phase = "writing") =>
       /\ index' = index
       /\ lines' = lines
       /\ last'.phase = "written" => pend'[1].text = lines[index + 1]
  /\ (last.op = "copyPrev" /\ last.phase \in {"written", "failed"}) =>
       /\ copyLog'.text = lines[index + 1]
       /\ last.phase = "written" => copyLog'.result = "resolved"
       /\ index' = IF copyLog'.result = "resolved" THEN index + 1 ELSE index

\* C6: copy-previous from an index i >= 1 sets the index to max(0, i-2)
\* and saves it in the session record before it copies again; when the
\* clipboard write succeeds the line written is lines[max(0, i-2)] and the
\* index ends at max(0, i-2)+1.
C6_CopyPrev == [][CopiesPrevious]_vars

\* copy-previous from the end of three lines has copied the second line
\* again through the native write
C6_Witness ==
  /\ Idle
  /\ hasNativeSupport
  /\ last.op = "copyPrev"
  /\ Len(lines) = 3
  /\ copyLog.result = "resolved"
  /\ copyLog.text = lines[2]
  /\ index = 2

\* the step's inputs with the storage working
Working(io) == [io EXCEPT !.set = "ok", !.rm = "ok"]

\* the handler has returned without raising, memory and suspended calls as
\* in t
EndsAs(s, t) ==
  /\ ~s.threw
  /\ s.lines = t.lines
  /\ s.index = t.index
  /\ s.pend = t.pend

\* the inputs of a step in which the storage fails, and those of them
\* given to a step that makes no copy
FailingInputs == {io \in StepInputs : io.set # "ok" \/ io.rm # "ok"}
FailingStorageInputs == FailingInputs \cap StorageInputs

\* C9: whichever way the storage calls of a step of confirm-input,
\* copy-next, copy-previous, copy-by-number, reset or toggle-theme fail,
\* the step ends without raising and leaves lines and index as the same
\* step leaves them when the storage works (a step is looked at wherever
\* the storage may fail in it: while faults are left).
C9_StorageFailure ==
  /\ ~uncaught
  /\ (faults > 0 /\ Idle) =>
       /\ \A value \in InputTexts :
            LET works == DoConfirmInput(value, CHOOSE io \in NoInputs : TRUE) IN
            \A io \in FailingStorageInputs : EndsAs(DoConfirmInput(value, io), works)
       /\ \A io \in FailingStorageInputs :
            /\ EndsAs(DoCopyByNumber(io), DoCopyByNumber(Working(io)))
            /\ EndsAs(DoResetAll(io), DoResetAll(Working(io)))
            /\ EndsAs(DoToggleMode(io), DoToggleMode(Working(io)))
       /\ \A io \in FailingInputs :
            /\ EndsAs(DoCopyNext(io), DoCopyNext(Working(io)))
            /\ EndsAs(DoCopyPrev(io), DoCopyPrev(Working(io)))
  /\ \A k \in 1..Len(pend) :
       /\ (faults > 0 /\ pend[k].st = "prompt") =>
            \A result \in PromptResults, copying \in CopyInputs :
              LET works == DoPromptResult(k, result, copying) IN
              \A io \in FailingInputs :
                Working(io) = copying => EndsAs(DoPromptResult(k, result, io), works)
       /\ (faults > 0 /\ pend[k].st \in {"written", "failed"} /\ pend[k].op = "copyNext") =>
            \A io \in FailingInputs : EndsAs(DoResume(k, io), DoResume(k, Working(io)))

\* a copy-next has advanced the index although its save failed: the
\* session record is behind
C9_Witness ==
  /\ Idle
  /\ sfault
  /\ ~uncaught
  /\ last.op = "copyNext"
  /\ copyLog.result = "resolved"
  /\ index = 2
  /\ ~SavedIs(localStorage.savedLines, lines, index)

Fallbacks == {"ClipboardJS", "execCommand"}

\* C10: for a non-empty text the native write is tried first (where the
\* secure context offers it), then one DOM fallback: ClipboardJS when it
\* is defined, the textarea with execCommand otherwise; no mechanism is
\* tried after one has succeeded, and copy fails only when all have failed.
C10_CopyOrder ==
  (copyLog.text # <<>> /\ copyLog.result \in {"resolved", "rejected"}) =>
    LET tried == copyLog.tried
        n == Len(tried)
    IN /\ n = (IF hasNativeSupport /\ ~tried[1].ok THEN 2 ELSE 1)
       /\ tried[1].m = "native" <=> hasNativeSupport
       /\ \A k \in 1..n :
            /\ tried[k].m # "native" =>
                 tried[k].m = (IF tried[k].lib THEN "ClipboardJS" ELSE "execCommand")
            /\ k > 1 => tried[k].m \in Fallbacks
            /\ k < n => ~tried[k].ok
       /\ copyLog.result = "resolved" <=> tried[n].ok
       /\ copyLog.result = "rejected" =>
            /\ \A k \in 1..n : ~tried[k].ok
            /\ \E k \in 1..n : tried[k].m \in Fallbacks

\* the native write has failed and ClipboardJS has made the copy
C10_Witness ==
  /\ copyLog.text # <<>>
  /\ copyLog.result = "resolved"
  /\ Len(copyLog.tried) = 2
  /\ copyLog.tried[1] = [m |-> "native", ok |-> FALSE, lib |-> TRUE]
  /\ copyLog.tried[2].m = "ClipboardJS"


SessionActions ==
  {"confirmInput", "copyNext", "copyPrev", "copyByNumber", "copyAll", "resetAll"}

\* C11: no step of confirm-input, copy-next, copy-previous, copy-by-number,
\* copy-all or reset changes the stored mode key, and toggle-theme changes
\* neither lines nor index nor the stored session record; the theme stored
\* before a reset is there after it.
C11_ThemeApart ==
  [][/\ last'.op \in SessionActions => localStorage'.mode = localStorage.mode
     /\ last'.op = "toggleMode" =>
          /\ lines' = lines
          /\ index' = index
          /\ localStorage'.savedLines = localStorage.savedLines]_vars

\* the light theme has been stored, then a session has been reset: the
\* session record is gone, the mode key is not
C11_Witness ==
  /\ last.op = "resetAll"
  /\ lines = <<>>
  /\ ~localStorage.savedLines.present
  /\ localStorage.mode = [present |-> TRUE, text |-> "light"]
  /\ lightMode


\* a step of copy-next: its start from an idle state, the end of its
\* native write, or its resumption
CopyNextInOrder ==
  /\ (Idle /\ last'.op = "copyNext" /\ index < Len(lines)) =>
       /\ lines' = lines
       /\ IF last'.phase = "writing"
          THEN /\ WritingLine(pend', lines[index + 1])
               /\ index' = index
               /\ localStorage' = localStorage
          ELSE /\ copyLog'.text = lines[index + 1]
               /\ IF copyLog'.result = "resolved"
                  THEN /\ index' = index + 1
                       /\ SavedIs(localStorage'.savedLines, lines, index + 1)
                  ELSE /\ index' = index
                       /\ localStorage' = localStorage
  /\ (last.op = "copyNext" /\ last.phase = "writing") =>
       /\ lines' = lines
       /\ index' = index
       /\ localStorage' = localStorage
       /\ pend'[1].text = lines[index + 1]
  /\ (last.op = "copyNext" /\ last.phase \in {"written", "failed"}) =>
       /\ lines' = lines
       /\ copyLog'.text = lines[index + 1]
       /\ last.phase = "written" => copyLog'.result = "resolved"
       /\ IF copyLog'.result = "resolved"
          THEN /\ index' = index + 1
               /\ SavedIs(localStorage'.savedLines, lines, index + 1)
          ELSE /\ index' = index
               /\ localStorage' = localStorage

\* C16: copy-next reads the current line, hands it to the clipboard, and
\* only when the write has succeeded increments the index and saves the
\* session with the incremented index; while the write is under way, and
\* when it has failed, index and session record are what they were.
C16_CopyNextOrder == [][CopyNextInOrder]_vars

\* a copy-next at index 1 whose native write and fallback have both failed
C16_Witness ==
  /\ Idle
  /\ last = Step("copyNext", <<>>, "done")
  /\ hasNativeSupport
  /\ copyLog.result = "rejected"
  /\ Len(copyLog.tried) = 2
  /\ index = 1
  /\ SavedIs(localStorage.savedLines, lines, 1)

\* C17: the storage working and every action completing before the next
\* begins, after each completed confirm-input, copy-next, copy-previous,
\* copy-by-number or reset the session record reads back as the lines and
\* the index in memory when there are lines, and is absent when there are
\* none, as after reset.
C17_RecordAgrees ==
  (Idle /\ last.op \in {"confirmInput", "copyNext", "copyPrev", "copyByNumber", "resetAll"}) =>
    IF lines # <<>>
    THEN SavedIs(localStorage.savedLines, lines, index)
    ELSE ~localStorage.savedLines.present

\* the second of three lines has been copied by its number
C17_Witness ==
  /\ Idle
  /\ last = Step("copyByNumber", decimal(2), "done")
  /\ copyLog.result = "resolved"
  /\ Len(lines) = 3
  /\ index = 2
  /\ SavedIs(localStorage.savedLines, lines, 2)

\* C20: copy-previous at index <= 0 gives the notice that there is no
\* previous line; index, lines and the stored session record stay as they
\* are, no copy is attempted and nothing is left suspended.
C20_NoPrevious ==
  [][(Idle /\ index <= 0 /\ last'.op = "copyPrev") =>
       /\ notice' = "NO_PREVIOUS"
       /\ index' = index
       /\ lines' = lines
       /\ localStorage' = localStorage
       /\ copyLog' = NoCopy
       /\ pend' = <<>>]_vars

\* copy-previous right after confirm-input
C20_Witness ==
  /\ last = Step("copyPrev", <<>>, "done")
  /\ notice = "NO_PREVIOUS"
  /\ index = 0
  /\ Len(lines) >= 1
  /\ SavedIs(localStorage.savedLines, lines, 0)


\* the one suspended call is a requestPermission awaiting st
Awaits(q, st) ==
  /\ Len(q) = 1
  /\ q[1].op = "requestPermission"
  /\ q[1].st = st

\* what a step does to the clipboardPermission key
PermissionStep ==
  LET permission == localStorage.clipboardPermission
      permissionAfter == localStorage'.clipboardPermission
  IN /\ permissionAfter # permission => last'.op = "requestPermission"
     /\ (permissionAfter = Granted /\ permission # Granted) =>
          /\ Awaits(pend, "success")
          /\ pend' = <<>>
     /\ (Awaits(pend', "success") /\ ~Awaits(pend, "success")) =>
          /\ copyLog'.text = <<SP>>
          /\ copyLog'.result = "resolved"
     /\ (last'.op = "requestPermission" /\ copyLog'.result = "rejected") =>
          /\ Awaits(pend', "error")
          /\ permissionAfter = permission
     /\ Awaits(pend, "question") =>
          \/ pend' = <<>> /\ permissionAfter = Denied
          \/ /\ permissionAfter = permission
             /\ \E st \in {"writing", "success", "error"} : Awaits(pend', st)
     /\ Awaits(pend, "error") =>
          \/ Awaits(pend', "note") /\ permissionAfter = Denied
          \/ Awaits(pend', "question") /\ permissionAfter = permission

\* C12: the clipboardPermission key is written by the permission flow
\* alone; it becomes granted only when the dialog of success is closed,
\* and that dialog opens only when the test copy of the blank has
\* succeeded; a test copy that fails leads to the dialog of retry with the
\* key unchanged; closing the first dialog or the dialog of retry without
\* confirming sets the key to denied.
C12_PermissionState == [][PermissionStep]_vars

\* the permission has been granted on a page that has no native clipboard,
\* through a fallback
C12_Witness ==
  /\ localStorage.clipboardPermission = Granted
  /\ last = Step("requestPermission", <<>>, "done")
  /\ ~hasNativeSupport
  /\ pend = <<>>


\* a call of requestPermission is suspended
InPriming == \E k \in 1..Len(pend) : pend[k].op = "requestPermission"

\* every dialog of the flow is closed in the end and every native write of
\* the test copy is ended by the browser: a dialog or clipboard operation
\* in flight always resolves or rejects
PrimingSettles ==
  /\ WF_vars(QuestionResult)
  /\ WF_vars(WriteText)
  /\ WF_vars(PermissionCopied)
  /\ WF_vars(DoneResult)
  /\ WF_vars(RetryResult)
  /\ WF_vars(NoteResult)

\* the permission flow and the session, every operation in flight settling:
\* the storage works
SpecPrimingSettles == Init /\ [][NextPriming]_vars /\ PrimingSettles

\* the same, the storage failing in up to MaxStorageFaults steps
SpecPrimingFaults == InitFaults /\ [][NextPriming]_vars /\ PrimingSettles

\* the user has declined at the dialog of retry, or the test copy has
\* succeeded: the flow stands at the dialog that follows
Decided == Awaits(pend, "note") \/ Awaits(pend, "success")

\* what a step does to the flow
PrimingStep ==
  /\ (InPriming /\ ~InPriming') =>
       localStorage'.clipboardPermission \in {Granted, Denied}
  /\ Decided => ~InPriming'
  /\ (last'.op = "requestPermission" /\ copyLog'.result = "rejected") =>
       Awaits(pend', "error")
  /\ Awaits(pend, "error") =>
       Awaits(pend', "note") \/ Awaits(pend', "question")

\* C26: once the user has declined or the test copy has succeeded the
\* flow ends, with the closing of the dialog it stands at; whenever the
\* flow ends the clipboardPermission key holds granted or denied; a test
\* copy that fails opens the dialog of retry, which leads to the note of a
\* decline or back to the first dialog.
C26_PrimingEnds ==
  /\ [][PrimingStep]_vars
  /\ Decided ~> ~InPriming


\* the texts of white space only
BlankTexts == {value \in InputTexts : \A k \in 1..Len(value) : value[k] \in WhiteSpace}

\* C21: confirm-input on an empty text or one of white space only gives
\* the ENTER_TEXT notice and leaves lines, index and localStorage as they
\* are; a confirm-input step that gives this notice has changed nothing;
\* and lines become empty by reset alone.
C21_BlankRejected ==
  [][/\ (Idle /\ last'.op = "confirmInput") =>
          /\ notice' = "ENTER_TEXT" =>
               /\ lines' = lines
               /\ index' = index
               /\ localStorage' = localStorage
          /\ \A value \in BlankTexts, io \in NoInputs :
               LET s == DoConfirmInput(value, io) IN
               /\ s.notice = "ENTER_TEXT"
               /\ s.lines = lines
               /\ s.index = index
               /\ s.ls = localStorage
               /\ s.pend = pend
     /\ (lines # <<>> /\ lines' = <<>>) => last'.op = "resetAll"]_vars

\* a blank text has been confirmed over a session of two lines at index 1
C21_Witness ==
  /\ last = Step("confirmInput", <<>>, "done")
  /\ notice = "ENTER_TEXT"
  /\ Len(lines) = 2
  /\ index = 1
  /\ SavedIs(localStorage.savedLines, lines, 1)


(* --------------------------------------- the session record on its own *)
\* longest arbitrary token sequence found under the session key
MaxPayloadLen == 3
\* most lines, and greatest index, given to saveSession
MaxSavedLines == 2
MaxSavedIndex == 1

\* the session key may hold anything: any short sequence of tokens, any
\* value, any object of up to two members named lines or index, and a
\* session record cut short
PayloadTokens ==
  {Punct("{"), Punct("}"), Punct(":"), TNull, TStr(Str("lines")), TStr(<<BACKSLASH>>)}
ValueTexts ==
  {<<TNull>>, <<TNum(0)>>, <<TNum(2)>>, <<TStr(<<>>)>>,
   <<Punct("["), Punct("]")>>, <<Punct("["), TStr(<<"a">>), Punct("]")>>}
MemberTexts ==
  {<<TStr(Str(w)), Punct(":")>> \o v : w \in {"lines", "index"}, v \in ValueTexts}
ObjectTexts ==
  {<<Punct("{"), Punct("}")>>}
    \cup {<<Punct("{")>> \o m \o <<Punct("}")>> : m \in MemberTexts}
    \cup {<<Punct("{")>> \o m \o <<Punct(",")>> \o n \o <<Punct("}")>> :
            m \in MemberTexts, n \in MemberTexts}
Prefixes(toks) == {SubSeq(toks, 1, k) : k \in 0..Len(toks)}
Payloads ==
  SeqsUpTo(PayloadTokens, MaxPayloadLen) \cup ValueTexts \cup ObjectTexts
    \cup Prefixes(stringify(<<<<"a">>>>, 1, 1))

SavedStrings == {<<>>, <<"a", QUOTE>>, <<BACKSLASH>>}
SavedLists == SeqsUpTo(SavedStrings, MaxSavedLines)

\* no save has been made whose record must still be there
NoSave == [made |-> FALSE, lines |-> <<>>, index |-> 0]

InitStorage ==
  /\ lines = <<>>
  /\ index = 0
  /\ localStorage \in
       {[EmptyStorage EXCEPT !.savedLines = item] :
          item \in {NoItem} \cup {Item(x) : x \in Payloads}}
  /\ lightMode = FALSE
  /\ pend = <<>>
  /\ hasNativeSupport = FALSE
  /\ notice = "none"
  /\ last = Step("init", <<>>, "done")
  /\ copyLog = NoCopy
  /\ run = -1
  /\ runLog = <<>>
  /\ uncaught = FALSE
  /\ sfault = FALSE
  /\ copied = NoTrack
  /\ faults = 0
  /\ arg = NoSave
  /\ res = EmptySession

\* the step of the storage manager ends: s.ls is the storage it leaves
Stored(s, op, outcome) ==
  /\ localStorage' = s.ls
  /\ uncaught' = (uncaught \/ s.threw)
  /\ last' = Step(op, <<>>, outcome)
  /\ UNCHANGED <<lines, index, lightMode, pend, hasNativeSupport, notice,
                 copyLog, run, runLog, sfault, copied, faults>>

\* saveSession(ls, idx); arg keeps what was saved when setItem went through
SaveSession ==
  \E ls \in SavedLists, idx \in 0..MaxSavedIndex, io \in StorageInputs :
    /\ Stored(saveSession(Begin(io, By("saveSession", <<>>)), ls, idx),
              "saveSession", io.set)
    /\ arg' = IF io.set = "ok" THEN [made |-> TRUE, lines |-> ls, index |-> idx]
              ELSE NoSave
    /\ res' = EmptySession

\* loadSession(), the getItem in it ending as rd; res is its result until
\* the next write
LoadSession ==
  \E rd \in CallOutcomes :
    /\ res' = loadSession(localStorage.savedLines, rd)
    /\ last' = Step("loadSession", <<>>, rd)
    /\ uncaught' = (uncaught \/ loadSession(localStorage.savedLines, rd).threw)
    /\ UNCHANGED <<progVars, notice, copyLog, run, runLog, sfault, copied, faults, arg>>

\* clearSession(): another write to the session key
ClearSession ==
  \E io \in StorageInputs :
    /\ Stored(clearSession(Begin(io, By("clearSession", <<>>))), "clearSession", io.rm)
    /\ arg' = NoSave
    /\ res' = EmptySession

NextStorage == SaveSession \/ LoadSession \/ ClearSession

SpecStorage == InitStorage /\ [][NextStorage]_vars

\* lines as JSON.parse returns them
ArrayOfStrings(ls) == JArr([k \in 1..Len(ls) |-> JStr(ls[k])])

\* C7: saveSession(L, i) whose write to the storage goes through, followed
\* by loadSession() with no other write to the session key in between,
\* returns the lines L and the index i.
C7_SaveLoad ==
  (last = Step("loadSession", <<>>, "ok") /\ arg.made) =>
    /\ res.lines = ArrayOfStrings(arg.lines)
    /\ res.index = JNum(arg.index)
    /\ ~res.threw

\* two lines, one with a quote and one a backslash, have been saved at
\* index 0 and loaded again
C7_Witness ==
  /\ last = Step("loadSession", <<>>, "ok")
  /\ arg.made
  /\ arg.lines = <<<<"a", QUOTE>>, <<BACKSLASH>>>>
  /\ arg.index = 0
  /\ res.lines = ArrayOfStrings(arg.lines)

\* what is under the session key has no lines field
LacksLines(item) ==
  LET p == JSONparse(item.text) IN
  p.ok /\ (p.val.t # "obj" \/ \A k \in 1..Len(p.val.v) : p.val.v[k][1] # Str("lines"))

\* C8: loadSession never raises, and returns no lines and index 0 when the
\* session key is missing, when its value is not valid JSON, when the
\* value has no lines field and when getItem itself fails.
C8_LoadTolerant ==
  last.op = "loadSession" =>
    /\ ~res.threw
    /\ ~uncaught
    /\ (\/ last.phase # "ok"
        \/ ~localStorage.savedLines.present
        \/ ~JSONparse(localStorage.savedLines.text).ok
        \/ LacksLines(localStorage.savedLines))
       => res = EmptySession

\* a session record cut short has been loaded
C8_Witness ==
  /\ last = Step("loadSession", <<>>, "ok")
  /\ localStorage.savedLines.present
  /\ Len(localStorage.savedLines.text) = 8
  /\ ~JSONparse(localStorage.savedLines.text).ok
  /\ res = EmptySession


\* the inputs of a step whose setItem fails
FailingWrites == {io \in StorageInputs : io.set # "ok"}

\* saveSession, its setItem failing, in the state as it is: setItem is
\* called once; after a quota error removeItem is called once, and the
\* session key is absent when that call goes through and keeps its record
\* when it fails as well; after another error nothing else is called and
\* the storage is as it was; no exception leaves saveSession
FailedWriteHandled ==
  \A ls \in SavedLists, idx \in 0..MaxSavedIndex, io \in FailingWrites :
    LET s == saveSession(Begin(io, By("saveSession", <<>>)), ls, idx) IN
    /\ ~s.threw
    /\ IF io.set = "quota"
       THEN /\ s.calls = <<"setItem", "removeItem">>
            /\ s.ls.savedLines =
                 IF io.rm = "ok" THEN NoItem ELSE localStorage.savedLines
            /\ s.ls.mode = localStorage.mode
       ELSE /\ s.calls = <<"setItem">>
            /\ s.ls = localStorage

\* C22, amended: when the write in saveSession fails with a quota error,
\* removeItem is called on the session key once and the write is not
\* retried; the key is absent afterwards when the removal goes through and
\* holds the record it held when the removal fails too; when the write
\* fails for another reason the stored record is unchanged; saveSession
\* raises in neither case.
C22_FailedWrite ==
  /\ FailedWriteHandled
  /\ last.op = "saveSession" => ~uncaught

\* a save has failed on the quota and the removal has failed as well: the
\* record is still there
C22_Witness ==
  /\ last = Step("saveSession", <<>>, "quota")
  /\ localStorage.savedLines.present
  /\ arg = NoSave

\* C22 as stated: after a save that has failed on the quota the session
\* key is absent.
C22_QuotaLeavesNoRecord ==
  [][(last'.op = "saveSession" /\ last'.phase = "quota") =>
       ~localStorage'.savedLines.present]_vars


(* ------------------------------------------------------- the page loads *)
\* x.length > 0 for a value x that is neither null nor undefined: arrays
\* and strings have a length, an object has the member of that name if
\* any, anything else has none and undefined > 0 is false
lengthAboveZero(x) ==
  CASE x.t \in {"arr", "str"} -> Len(x.v) > 0
    [] x.t = "obj" ->
         LET l == lookup(x.v, <<"l", "e", "n", "g", "t", "h">>)
         IN l.t = "num" /\ l.v > 0
    [] OTHER -> FALSE

\* the fields lines and index the constructor of LineManager sets
NewSession == [lines |-> JArr(<<>>), index |-> JNum(0), threw |-> FALSE]

\* loadSessionDirect taking the lines and starting over at index 0
loadSessionDirectFromStart(mem, sessionData) ==
  IF truthy(sessionData.lines) /\ lengthAboveZero(sessionData.lines)
  THEN [lines |-> sessionData.lines,
        index |-> JNum(0),
        threw |-> sessionData.lines.t # "arr"]
  ELSE mem

\* LineManager.loadSessionDirect, sessionData being what loadSession has
\* returned: the fields as JavaScript values; threw says that
\* this.lines.join was called on something that is no array, which init
\* catches
loadSessionDirect(mem, sessionData) ==
  IF truthy(sessionData.lines) /\ lengthAboveZero(sessionData.lines)
  THEN [lines |-> sessionData.lines,
        index |-> orElse(sessionData.index, JNum(0)),
        threw |-> sessionData.lines.t # "arr"]
  ELSE mem

\* LineManager.loadSavedMode on a new page, which has no light-mode class
loadSavedMode(ls) == ls.mode = [present |-> TRUE, text |-> "light"]

\* an array of strings and an integer
IsSession(mem) ==
  /\ mem.lines.t = "arr"
  /\ \A k \in 1..Len(mem.lines.v) : mem.lines.v[k].t = "str"
  /\ mem.index.t = "num"

\* the text of a copy-next whose native write has succeeded and which has
\* not resumed; <<>> when there is none
WrittenLine(q) ==
  IF q # <<>> /\ q[1].op = "copyNext" /\ q[1].st = "written" THEN q[1].text ELSE <<>>

\* The page is closed and opened again, at any moment: what is suspended
\* is gone, and the constructor of LineManager builds the state from
\* localStorage. The label keeps the line whose write had succeeded.
Reload ==
  LET mem == loadSessionDirect(NewSession, loadSession(localStorage.savedLines, "ok")) IN
  /\ IsSession(mem)
  /\ lines' = [k \in 1..Len(mem.lines.v) |-> mem.lines.v[k].v]
  /\ index' = mem.index.v
  /\ lightMode' = loadSavedMode(localStorage)
  /\ pend' = <<>>
  /\ notice' = "none"
  /\ last' = Step("reload", WrittenLine(pend), "done")
  /\ copyLog' = NoCopy
  /\ run' = -1
  /\ runLog' = <<>>
  /\ sfault' = FALSE
  /\ copied' = copied
  /\ UNCHANGED <<localStorage, hasNativeSupport, uncaught, faults, funVars>>

NextReload == Next \/ Reload

\* the storage works and the page may be reloaded
SpecReload == Init /\ [][NextReload]_vars

\* C18: when the page is closed after the clipboard write of lines[i] made
\* by a copy-next has succeeded and before the handler has gone on to
\* increment and save, the page opened again has the same lines and the
\* index i, and the copy-next that follows hands lines[i] to the clipboard
\* again.
C18_ReloadReoffers ==
  [][/\ (WrittenLine(pend) # <<>> /\ last'.op = "reload") =>
          /\ WrittenLine(pend) = lines[index + 1]
          /\ lines' = lines
          /\ index' = index
     /\ (last.op = "reload" /\ last.value # <<>> /\ last'.op = "copyNext") =>
          IF last'.phase = "writing"
          THEN WritingLine(pend', last.value)
          ELSE copyLog'.text = last.value]_vars

\* the page has been reloaded after the second of three lines was written
\* and before the index was saved
C18_Witness ==
  /\ last.op = "reload"
  /\ Len(lines) = 3
  /\ index = 1
  /\ last.value = lines[2]
  /\ pend = <<>>
  /\ SavedIs(localStorage.savedLines, lines, 1)

\* what the page may find under the session key: the payloads above and
\* records whose index is negative
RestorePayloads ==
  Payloads \cup
    {<<Punct("{"), TStr(Str("lines")), Punct(":")>> \o v
       \o <<Punct(","), TStr(Str("index")), Punct(":"), TNum(-1), Punct("}")>> :
         v \in {<<Punct("["), TStr(<<"a">>), Punct("]")>>, <<Punct("["), Punct("]")>>}}

StoredModes ==
  {NoMode, [present |-> TRUE, text |-> "light"], [present |-> TRUE, text |-> "dark"]}

\* a page about to load over a storage that holds anything
InitRestore ==
  /\ lines = <<>>
  /\ index = 0
  /\ localStorage \in
       {[EmptyStorage EXCEPT !.savedLines = item, !.mode = mode] :
          item \in {NoItem} \cup {Item(x) : x \in RestorePayloads},
          mode \in StoredModes}
  /\ lightMode = FALSE
  /\ pend = <<>>
  /\ hasNativeSupport = FALSE
  /\ notice = "none"
  /\ last = Step("closed", <<>>, "done")
  /\ copyLog = NoCopy
  /\ run = -1
  /\ runLog = <<>>
  /\ uncaught = FALSE
  /\ sfault = FALSE
  /\ copied = NoTrack
  /\ faults = 0
  /\ arg = <<>>
  /\ res = NewSession

\* LineManager.init up to loadSessionDirect, the getItem of loadSession
\* ending as rd: res is this.lines and this.index as JavaScript values
Restore ==
  \E rd \in CallOutcomes :
    LET mem == loadSessionDirect(NewSession, loadSession(localStorage.savedLines, rd)) IN
    /\ res' = mem
    /\ lightMode' = loadSavedMode(localStorage)
    /\ notice' = IF mem.threw THEN "INIT_ERROR" ELSE "none"
    /\ last' = Step("init", <<>>, rd)
    /\ UNCHANGED <<lines, index, localStorage, pend, hasNativeSupport, copyLog,
                   run, runLog, uncaught, sfault, copied, faults, arg>>

NextRestore == Restore

SpecRestore == InitRestore /\ [][NextRestore]_vars

\* x.length of an array or a string
lengthOf(x) == IF x.t \in {"arr", "str"} THEN Len(x.v) ELSE 0

\* what is under the session key has no lines that can be used: it is
\* missing, is not JSON, or has no array of at least one line
NoUsableLines(item) ==
  \/ ~item.present
  \/ ~JSONparse(item.text).ok
  \/ LET v == getProp(JSONparse(item.text).val, Str("lines"))
     IN v.t # "arr" \/ v.v = <<>>

\* C19: whatever is stored under the session key, the page that has loaded
\* has a number for its index with 0 <= index <= lines.length, and has the
\* empty session when the payload has no usable lines.
C19_RestoreInRange ==
  last.op = "init" =>
    /\ res.index.t = "num"
    /\ res.index.v >= 0
    /\ res.index.v <= lengthOf(res.lines)
    /\ NoUsableLines(localStorage.savedLines) => res = NewSession


(* ------------------------------------- a session loaded with empty entries *)
\* what a stored session may hold for a line: nothing, a blank, a letter
StoredEntries == {<<>>, <<SP>>, <<"a">>}
StoredLists == SeqsUpTo(StoredEntries, MaxLines)

\* the page has loaded a session record whose lines were not cleaned
InitLoaded ==
  /\ \E ls \in StoredLists : \E idx \in 0..Len(ls) :
       /\ localStorage =
            [EmptyStorage EXCEPT !.savedLines = Item(stringify(ls, idx, 1))]
       /\ LET mem == loadSessionDirect(NewSession,
                                       loadSession(Item(stringify(ls, idx, 1)), "ok"))
          IN /\ IsSession(mem)
             /\ lines = [k \in 1..Len(mem.lines.v) |-> mem.lines.v[k].v]
             /\ index = mem.index.v
  /\ lightMode = FALSE
  /\ pend = <<>>
  /\ hasNativeSupport \in BOOLEAN
  /\ notice = "none"
  /\ last = Step("init", <<>>, "done")
  /\ copyLog = NoCopy
  /\ run = -1
  /\ runLog = <<>>
  /\ uncaught = FALSE
  /\ sfault = FALSE
  /\ copied = NoTrack
  /\ faults = 0
  /\ arg = <<>>
  /\ res = <<>>

\* the storage works; the session starts as it was loaded
SpecLoaded == InitLoaded /\ [][Next]_vars

\* the place of the first entry at or after i that is not empty or blank,
\* 0-based; the length of the list when there is none
RECURSIVE FirstNonEmpty(_, _)
FirstNonEmpty(ls, i) ==
  IF i >= Len(ls) THEN Len(ls)
  ELSE IF trim(ls[i + 1]) # <<>> THEN i
  ELSE FirstNonEmpty(ls, i + 1)

\* a step that starts copy-next skips to the first entry that is not
\* empty and hands it to the clipboard, or ends the list
SkipsThenCopies ==
  LET j == FirstNonEmpty(lines, index) IN
  /\ lines' = lines
  /\ IF j >= Len(lines)
     THEN /\ notice' = "LIST_ENDED"
          /\ copyLog' = NoCopy
          /\ pend' = <<>>
          /\ index' = j
     ELSE IF last'.phase = "writing"
     THEN /\ WritingLine(pend', lines[j + 1])
          /\ index' = j
     ELSE /\ copyLog'.text = lines[j + 1]
          /\ index' = IF copyLog'.result = "resolved" THEN j + 1 ELSE j

\* C24: no step hands an empty or blank text to the clipboard on behalf of
\* copy-next, and a copy-next step first moves the index past every empty
\* or blank entry, then copies the first other entry at or after the old
\* index, or reports the list as ended when there is none.
C24_SkipsEmpty ==
  [][/\ \A k \in 1..Len(pend') :
          pend'[k].op = "copyNext" => ~isEmpty(pend'[k].text)
     /\ last'.op = "copyNext" =>
          (copyLog'.tried # <<>> => ~isEmpty(copyLog'.text))
     /\ (Idle /\ last'.op = "copyNext" /\ index <= Len(lines)) => SkipsThenCopies]_vars

\* copy-next on a loaded session has passed an empty and a blank entry and
\* copied the third
C24_Witness ==
  /\ last = Step("copyNext", <<>>, "done")
  /\ lines = <<<<>>, <<SP>>, <<"a">>>>
  /\ copyLog.text = <<"a">>
  /\ copyLog.result = "resolved"
  /\ index = 3


(* -------------------------------------- what a session has had written *)
\* the writes to the clipboard are kept from the construction on
InitCopied ==
  /\ Constructed
  /\ copied = NewTrack
  /\ hasNativeSupport \in BOOLEAN
  /\ faults = 0
  /\ arg = <<>>
  /\ res = <<>>

SpecCopied == InitCopied /\ [][Next]_vars

\* every line of the session has been written to the clipboard
AllWritten == \A k \in 1..Len(lines) : lines[k] \in copied.texts

\* C25, as it holds: each action ending before the next begins, a session
\* of at least one line whose index has reached its length without
\* copyByNumber having set the index since the session was created has had
\* every one of its lines written to the clipboard since then
C25_ExhaustedAllWritten ==
  (Len(lines) >= 1 /\ index = Len(lines) /\ ~copied.jumped) => AllWritten

\* three lines have been copied to the end with copy-next and copy-previous
C25_Witness ==
  /\ Idle
  /\ Len(lines) = 3
  /\ index = 3
  /\ ~copied.jumped
  /\ AllWritten
  /\ run = -1

\* C25 as stated, copyByNumber included: a session of at least one line
\* whose index has reached its length has had every line written
C25_ExhaustedAfterAnyCopies ==
  (Len(lines) >= 1 /\ index = Len(lines)) => AllWritten


(* ------------------------------------------ handlers that interleave *)
\* most handlers suspended at a time
MaxPending == 2

\* a suspended call that has a dialog open
HasDialog(task) == task.st \in {"prompt", "question", "success", "error", "note"}

\* The page takes a click or a shortcut: no dialog covers it. Nothing in
\* the handlers looks at what is suspended, so a pending clipboard write
\* holds no event back.
Free ==
  /\ Len(pend) < MaxPending
  /\ \A k \in 1..Len(pend) : ~HasDialog(pend[k])

\* an event is handled whenever the page is free; a suspended handler goes
\* on when what it awaits has ended
NextAsync ==
  \/ Free /\ ConfirmInput
  \/ Free /\ CopyNext
  \/ Free /\ CopyPrev
  \/ Free /\ CopyByNumber
  \/ Free /\ CopyAll
  \/ Free /\ ResetAll
  \/ Free /\ ToggleMode
  \/ PromptResult
  \/ WriteText
  \/ Resume

\* the storage works; events arrive while handlers are suspended
SpecAsync == Init /\ [][NextAsync]_vars

\* clipboard writes under way and dialogs open
InFlight(q) == {k \in 1..Len(q) : q[k].st \in {"writing", "prompt"}}

\* C13: whatever the events, at most one clipboard write or dialog is
\* pending at a time.
C13_OneInFlight == Cardinality(InFlight(pend)) <= 1

\* C14: when a copy-next has run to its end, having been suspended on its
\* clipboard write or not, 0 <= index <= lines.length, whatever has run in
\* between.
C14_ResumedInRange ==
  (last.op = "copyNext" /\ last.phase = "done") =>
    /\ index >= 0
    /\ index <= Len(lines)

\* C15: a step of copy-next that takes the index from i to i+1, i being
\* the place of a line, ends a copy that has written lines[i] of the lines
\* there are at that step, also when a copy-next or a confirm-input has
\* run since the write was started.
C15_AdvanceMatched ==
  [][(last'.op = "copyNext" /\ index' = index + 1 /\ index < Len(lines)) =>
       /\ copyLog'.result = "resolved"
       /\ copyLog'.text = lines[index + 1]]_vars


(* ------------------------------------------------ parseLines on its own *)
Texts == SeqsUpTo(Alphabet, MaxTextLen)

InitParse ==
  /\ Constructed
  /\ copied = NoTrack
  /\ faults = 0
  /\ hasNativeSupport = FALSE
  /\ arg \in Texts
  /\ res = <<>>

ParseLines ==
  /\ last.op = "init"
  /\ res' = parseLines(arg)
  /\ last' = Step("parseLines", <<>>, "done")
  /\ UNCHANGED <<progVars, notice, copyLog, run, runLog, uncaught, sfault, copied, faults, arg>>

SpecParse == InitParse /\ [][ParseLines]_vars

\* The lines of a text read off in one pass over its characters: line is
\* the current row from its first to its latest non-blank character, gap
\* the blanks seen since.
RECURSIVE scanLines(_, _, _)
scanLines(text, line, gap) ==
  IF text = <<>> THEN (IF line = <<>> THEN <<>> ELSE <<line>>)
  ELSE LET c == Head(text) IN
       IF c = NL
       THEN (IF line = <<>> THEN <<>> ELSE <<line>>) \o scanLines(Tail(text), <<>>, <<>>)
       ELSE IF c \in WhiteSpace
       THEN scanLines(Tail(text), line, IF line = <<>> THEN <<>> ELSE Append(gap, c))
       ELSE scanLines(Tail(text), line \o gap \o <<c>>, <<>>)

BlankOnly(str) == \A k \in 1..Len(str) : str[k] \in WhiteSpace

\* C3: parseLines returns the trimmed non-empty segments of the text in
\* their input order, none of them empty or blank, and the empty sequence
\* for an empty or blank text.
C3_ParseLines ==
  last.op = "parseLines" =>
    /\ res = SelectSeq(mapTrim(split(arg)), NonEmptyLine)
    /\ res = scanLines(arg, <<>>, <<>>)
    /\ \A k \in 1..Len(res) :
         /\ res[k] # <<>>
         /\ ~BlankOnly(res[k])
         /\ trim(res[k]) = res[k]
         /\ \A j \in 1..Len(res[k]) : res[k][j] # NL
    /\ BlankOnly(arg) => res = <<>>

\* a text with an empty row between two padded lines has been parsed
C3_Witness ==
  /\ last.op = "parseLines"
  /\ Len(res) = 2
  /\ Len(split(arg)) = 3
  /\ split(arg)[2] = <<>>
  /\ arg[1] = SP


(* ------------------------------------------------ updateStatus on its own *)
\* most lines of a session whose progress is shown
MaxShownLines == 20

\* Math.round(p / q) for p >= 0 and q > 0: the nearest integer, the upper
\* one of two that are equally near. The quotient the code rounds,
\* (index / length) * 100 in double precision, is exact where it ends in
\* .5 for the lengths up to the bound (length 8 and 16) and nowhere else
\* nearer to a half than the precision lost.
MathRound(p, q) == (2 * p + q) \div (2 * q)

\* LineManager.updateStatus: the width of progressFill in percent and the
\* two numbers of the status text; shown is what is displayed before
updateStatus(shown, ls, idx) ==
  IF Len(ls) = 0 THEN shown
  ELSE [percent |-> MathRound(idx * 100, Len(ls)), current |-> idx, total |-> Len(ls)]

\* nothing is displayed yet
NoStatus == [percent |-> 0, current |-> 0, total |-> 0]

\* a session of 1 to MaxShownLines lines at any index from 0 to its length
InitProgress ==
  /\ \E n \in 1..MaxShownLines :
       /\ lines = [k \in 1..n |-> <<"a">>]
       /\ index \in 0..n
  /\ localStorage = EmptyStorage
  /\ lightMode = FALSE
  /\ pend = <<>>
  /\ hasNativeSupport = FALSE
  /\ notice = "none"
  /\ last = Step("init", <<>>, "done")
  /\ copyLog = NoCopy
  /\ run = -1
  /\ runLog = <<>>
  /\ uncaught = FALSE
  /\ sfault = FALSE
  /\ copied = NoTrack
  /\ faults = 0
  /\ arg = <<>>
  /\ res = NoStatus

UpdateStatus ==
  /\ last.op = "init"
  /\ res' = updateStatus(res, lines, index)
  /\ last' = Step("updateStatus", <<>>, "done")
  /\ UNCHANGED <<progVars, notice, copyLog, run, runLog, uncaught, sfault, copied, faults, arg>>

SpecProgress == InitProgress /\ [][UpdateStatus]_vars

\* C23: for a session of at least one line at an index from 0 to its
\* length, the percentage shown is floor(index * 100 / length), lies in
\* 0..100, and is 100 only at index = length.
C23_PercentIsFloor ==
  last.op = "updateStatus" =>
    /\ res.percent = (index * 100) \div Len(lines)
    /\ res.percent \in 0..100
    /\ res.percent = 100 => index = Len(lines)


====
